---------------------------- MODULE Spec2Model ----------------------------
(***************************************************************************)
(* The build command of phenomic's core                                    *)
(* (src/packages/core/src/commands/build.js): build(config), getContent    *)
(* and prerenderFileAndDependencies, as a state machine.                   *)
(*                                                                         *)
(* JavaScript runs each continuation to completion, so one action is one   *)
(* macrotask: the settling of one pending asynchronous operation together  *)
(* with every synchronous statement and promise reaction that follows it   *)
(* up to the next await.  The continuations are functions from a state     *)
(* record to a state record; an action applies one to the current state.   *)
(***************************************************************************)
EXTENDS Naturals, Sequences, FiniteSets

(* ------------------------------ bounds --------------------------------- *)

\* Longest list resolveURLs returns.
MaxUrls == 3
\* Most content files oneShot discovers.
MaxFiles == 2
\* Number of build() invocations in one process.
MaxBuilds == 2
\* pMap's concurrency option.  The code passes 50 (build.js:203); the model
\* scales it down so that URL lists longer than the cap stay within reach.
Concurrency == 2

(* ------------------------------ inputs --------------------------------- *)

Caps ==
    {"transform", "collect", "build", "buildForPrerendering",
     "getRoutes", "resolveURLs", "renderStatic", "beforeBuild"}

\* The capabilities build() requires of the list; beforeBuild is optional.
Required == Caps \ {"beforeBuild"}

\* The plugin lists a config may hold; a plugin is the set of capabilities it
\* exposes as a callable.  One plugin lacking any one or two of the required
\* capabilities, the empty list, and lists of two plugins that repeat or split
\* the roles.
PluginLists ==
    { <<Caps \ R>> : R \in {Q \in SUBSET Required : Cardinality(Q) <= 2} }
      \cup { << >>,
             <<Caps, Caps>>,
             <<{"buildForPrerendering", "beforeBuild"}, Required>>,
             <<{"getRoutes"}, Required>>,
             <<{"resolveURLs", "transform"}, Required \ {"resolveURLs"}>> }

\* config.outdir; rimraf cleans the literal "dist".
OutDirs == {"dist", "public"}

\* What the renderer stub returns for a location: a list of {path, contents}.
\* Location 1 yields two files whose paths decode to the same output path,
\* location 2 a file that collides with them, the others a file of their own.
RenderedFiles(location) ==
    CASE location = 1 -> << [path |-> "a%20b", contents |-> "x"],
                            [path |-> "a b", contents |-> "y"] >>
      [] location = 2 -> << [path |-> "a b", contents |-> "z"] >>
      [] OTHER        -> << [path |-> "c", contents |-> "w"] >>

\* decodeURIComponent on the paths above.
decodeURIComponent(p) == IF p = "a%20b" THEN "a b" ELSE p

(* ------------------------------- state --------------------------------- *)

VARIABLES
    plugins,        \* config.plugins
    outdir,         \* config.outdir
    buildNo,        \* which invocation of build() this is
    pc,             \* the await build() is suspended at, or "done" / "rejected"
    error,          \* the reason build()'s promise rejected with
    server,         \* runningServer: "none", "listening", "closing", "closed"
    closeCalls,     \* calls of runningServer.close() in this build
    hook,           \* per plugin: its beforeBuild promise
    assets,         \* result of bundler.build (the build that produced it, 0 = none)
    app,            \* result of bundler.buildForPrerendering
    files,          \* number of files oneShot returned
    proc,           \* per content file: its processFile promise
    db,             \* the content store: set of records
    urls,           \* result of resolveURLs
    resolved,       \* resolveURLs has fulfilled
    taken,          \* pMap: items taken from the iterator
    resolvingCount, \* pMap: mapper promises not yet fulfilled
    isRejected,     \* pMap: rejected
    loc,            \* per location: its prerenderFileAndDependencies promise
    wr,             \* per location, per rendered file: its writeFile promise
    disk,           \* the filesystem: set of [dir, path, contents]
    calls,          \* number of calls made in this build, per callee
    args,           \* per location: the app and assets renderStatic was called with
    firstError,     \* the first error a stage of this build raised
    prev            \* how the previous build ended: its URL count and output

vars ==
    <<plugins, outdir, buildNo, pc, error, server, closeCalls, hook, assets,
      app, files, proc, db, urls, resolved, taken, resolvingCount, isRejected,
      loc, wr, disk, calls, args, firstError, prev>>

\* The current state as a record, and the assignment of a record to the state.
S ==
    [plugins |-> plugins, outdir |-> outdir, buildNo |-> buildNo, pc |-> pc,
     error |-> error, server |-> server, closeCalls |-> closeCalls,
     hook |-> hook, assets |-> assets, app |-> app, files |-> files,
     proc |-> proc, db |-> db, urls |-> urls, resolved |-> resolved,
     taken |-> taken, resolvingCount |-> resolvingCount,
     isRejected |-> isRejected, loc |-> loc, wr |-> wr, disk |-> disk,
     calls |-> calls, args |-> args, firstError |-> firstError, prev |-> prev]

Becomes(s) ==
    /\ plugins' = s.plugins
    /\ outdir' = s.outdir
    /\ buildNo' = s.buildNo
    /\ pc' = s.pc
    /\ error' = s.error
    /\ server' = s.server
    /\ closeCalls' = s.closeCalls
    /\ hook' = s.hook
    /\ assets' = s.assets
    /\ app' = s.app
    /\ files' = s.files
    /\ proc' = s.proc
    /\ db' = s.db
    /\ urls' = s.urls
    /\ resolved' = s.resolved
    /\ taken' = s.taken
    /\ resolvingCount' = s.resolvingCount
    /\ isRejected' = s.isRejected
    /\ loc' = s.loc
    /\ wr' = s.wr
    /\ disk' = s.disk
    /\ calls' = s.calls
    /\ args' = s.args
    /\ firstError' = s.firstError
    /\ prev' = s.prev

Callees ==
    {"rimraf", "listen", "build", "buildForPrerendering", "getContent",
     "getContentPath", "warnNoContent", "oneShot", "destroy", "getRoutes",
     "processFile", "resolveURLs", "warnNoURLs", "renderStatic", "writeFile"}

NoError == [kind |-> "none", id |-> 0]
Err(kind, id) == [kind |-> kind, id |-> id]

\* No previous build, or one that did not succeed.
NoPrev == [done |-> FALSE, urls |-> 0, out |-> {}]

\* The state build() starts from, given what outlives an invocation.
Fresh(ps, od, n, store, fs) ==
    [plugins |-> ps, outdir |-> od, buildNo |-> n, pc |-> "start",
     error |-> NoError, server |-> "none", closeCalls |-> 0,
     hook |-> [i \in 1..Len(ps) |-> "none"], assets |-> 0, app |-> 0,
     files |-> 0, proc |-> [f \in 1..MaxFiles |-> "idle"], db |-> store,
     urls |-> << >>, resolved |-> FALSE, taken |-> 0, resolvingCount |-> 0,
     isRejected |-> FALSE, loc |-> [l \in 1..MaxUrls |-> "idle"],
     wr |-> [l \in 1..MaxUrls |-> [k \in 1..Len(RenderedFiles(l)) |-> "idle"]],
     disk |-> fs, calls |-> [c \in Callees |-> 0],
     args |-> [l \in 1..MaxUrls |-> <<0, 0>>], firstError |-> NoError,
     prev |-> NoPrev]

\* The continuations of build(), innermost first.

Called(s, c) == [s EXCEPT !.calls[c] = @ + 1]

Min(a, b) == IF a < b THEN a ELSE b

\* The first plugin of the list exposing the capability, 0 when none does
\* (config.plugins.filter(p => p.cap)[0]).
FirstWith(ps, cap) ==
    IF \E i \in 1..Len(ps) : cap \in ps[i]
    THEN CHOOSE i \in 1..Len(ps) :
             /\ cap \in ps[i]
             /\ \A j \in 1..(i - 1) : cap \notin ps[j]
    ELSE 0

bundler(ps) == FirstWith(ps, "buildForPrerendering")
renderer(ps) == FirstWith(ps, "getRoutes")
urlsResolver(ps) == FirstWith(ps, "resolveURLs")

\* plugin && plugin.cap
Has(ps, i, cap) == i # 0 /\ cap \in ps[i]

\* runningServer.close(): the server stops listening; the close completes later.
close(sv) == IF sv = "listening" THEN "closing" ELSE sv

\* Catch, had the catch block rethrown without closing the server.
Catch_withoutClose(s, e) == [s EXCEPT !.error = e, !.pc = "rejected"]

\* Catch, had the catch block also removed what the build had written.
Catch_rollback(s, e) ==
    [s EXCEPT !.server = close(@), !.closeCalls = @ + 1, !.error = e,
              !.pc = "rejected", !.disk = {x \in @ : x.dir # s.outdir}]

\* Catch, had the catch block thrown an error of its own in place of the one caught.
Catch_wrapped(s, e) ==
    [s EXCEPT !.server = close(@), !.closeCalls = @ + 1,
              !.error = Err("build failed", 0), !.pc = "rejected"]

\* Catch, had the catch block also destroyed the content store.
Catch_destroysStore(s, e) ==
    [s EXCEPT !.server = close(@), !.closeCalls = @ + 1, !.error = e,
              !.pc = "rejected", !.db = {}]

\* catch (error) { runningServer.close(); throw error; }
Catch(s, e) ==
    [s EXCEPT !.server = close(@), !.closeCalls = @ + 1, !.error = e,
              !.pc = "rejected"]

\* A stage raises e: the first error raised in a build is remembered.
Raise(s, e) == IF s.firstError = NoError THEN [s EXCEPT !.firstError = e] ELSE s

\* throw inside the try block, or the rejection of an awaited promise.
Throw(s, e) == Catch(Raise(s, e), e)

\* The end of the try block: runningServer.close(), and build() returns.
AfterPMap(s) ==
    [s EXCEPT !.server = close(@), !.closeCalls = @ + 1, !.pc = "done"]

\* prerenderFileAndDependencies up to its await: the renderStatic check and call.
prerenderFileAndDependencies(s, l) ==
    IF ~Has(s.plugins, renderer(s.plugins), "renderStatic")
    THEN [s EXCEPT !.loc[l] = "rejected"]
    ELSE Called([s EXCEPT !.loc[l] = "rendering",
                          !.args[l] = <<s.app, s.assets>>], "renderStatic")

\* PMapRejected, had every rejected mapper reached the catch block.
PMapRejected_unguarded(s, e) == Catch([s EXCEPT !.isRejected = TRUE], e)

\* pMap: err => { isRejected = true; reject(err); } and the await of pMap throws.
PMapRejected(s, e) ==
    IF s.isRejected THEN s ELSE Catch([s EXCEPT !.isRejected = TRUE], e)

\* pMap calls the mapper for the item it took.
Mapper(s, l) ==
    LET t == prerenderFileAndDependencies(s, l)
    IN  IF t.loc[l] = "rejected"
        THEN PMapRejected(Raise(t, Err("a renderer is required (renderStatic)", 0)),
                          Err("a renderer is required (renderStatic)", 0))
        ELSE t

\* PMapNext, had pMap resolved as soon as the list was exhausted, without
\* waiting for the mappers in flight.
PMapNext_eager(s) ==
    IF s.isRejected THEN s
    ELSE IF s.taken = Len(s.urls)
         THEN AfterPMap(s)
         ELSE Mapper([s EXCEPT !.taken = @ + 1, !.resolvingCount = @ + 1],
                     s.taken + 1)

\* pMap's next(): take the next item and map it, or resolve when none is left
\* and none is in flight.
PMapNext(s) ==
    IF s.isRejected THEN s
    ELSE IF s.taken = Len(s.urls)
         THEN IF s.resolvingCount = 0 THEN AfterPMap(s) ELSE s
         ELSE Mapper([s EXCEPT !.taken = @ + 1, !.resolvingCount = @ + 1],
                     s.taken + 1)

\* PMapFulfilled, had the fulfilment handler not called next().
PMapFulfilled_withoutNext(s) == [s EXCEPT !.resolvingCount = @ - 1]

\* pMap: val => { resolvingCount--; next(); }
PMapFulfilled(s) == PMapNext([s EXCEPT !.resolvingCount = @ - 1])

RECURSIVE RunMappers(_, _, _)
RunMappers(s, l, k) ==
    IF l > k THEN s ELSE RunMappers(Mapper(s, l), l + 1, k)

\* PMapStart, had the concurrency option been left out (every item is taken).
PMapStart_uncapped(s) ==
    LET n == Len(s.urls)
        t == [s EXCEPT !.pc = "pMap", !.taken = n, !.resolvingCount = n]
    IN  IF n = 0 THEN AfterPMap(t) ELSE RunMappers(t, 1, n)

\* pMap(urls, mapper, {concurrency}): next() is called concurrency times, or
\* until the list is exhausted; the mappers of the items taken run afterwards.
PMapStart(s) ==
    LET n == Len(s.urls)
        k == Min(Concurrency, n)
        t == [s EXCEPT !.pc = "pMap", !.taken = k, !.resolvingCount = k]
    IN  IF n = 0 THEN AfterPMap(t) ELSE RunMappers(t, 1, k)

\* AfterResolveURLs, had the empty list not been warned about.
AfterResolveURLs_silent(s, n) ==
    PMapStart([s EXCEPT !.urls = [i \in 1..n |-> i], !.resolved = TRUE])

\* resolveURLs fulfilled with a list of n locations: the warning and the pMap call.
AfterResolveURLs(s, n) ==
    LET t == [s EXCEPT !.urls = [i \in 1..n |-> i], !.resolved = TRUE]
    IN  PMapStart(IF n = 0 THEN Called(t, "warnNoURLs") ELSE t)

\* After getContent: the renderer and URL-resolver checks, getRoutes(app) and
\* the call of resolveURLs.
AfterGetContent(s) ==
    IF ~Has(s.plugins, renderer(s.plugins), "getRoutes")
    THEN Throw(s, Err("a renderer is required (getRoutes)", 0))
    ELSE IF ~Has(s.plugins, urlsResolver(s.plugins), "resolveURLs")
    THEN Throw(s, Err("an urls-resolver is required (resolveURLs)", 0))
    ELSE [Called(Called(s, "getRoutes"), "resolveURLs")
            EXCEPT !.pc = "resolveURLs"]

\* db.destroy(): the store is emptied.
destroy(store) == {}

\* processFile: the transform and collect chains leave the file's record in the store.
processFile(store, f, n) == store \cup {[file |-> f, build |-> n]}

\* db.destroy() fulfilled: processFile is called on every file.
AfterDestroy(s) ==
    LET t == [s EXCEPT !.db = destroy(@),
                       !.proc = [f \in 1..MaxFiles |->
                                   IF f <= s.files THEN "pending" ELSE "idle"],
                       !.calls["processFile"] = @ + s.files,
                       !.pc = "processFile"]
    IN  IF s.files = 0 THEN AfterGetContent(t) ELSE t

\* getContentPath fulfilled: oneShot lists n files and db.destroy() is called.
AfterGetContentPath(s, n) ==
    [Called(Called(s, "oneShot"), "destroy") EXCEPT !.files = n, !.pc = "destroy"]

\* getContentPath rejected: the warning, and getContent returns.
NoContentPath(s) == AfterGetContent(Called(s, "warnNoContent"))

\* getContent, had the two plugin checks been left out.
getContent_unchecked(s) ==
    [Called(s, "getContentPath") EXCEPT !.pc = "getContentPath"]

\* getContent up to its first await: the transform and collect checks.
getContent(s) ==
    IF \A i \in 1..Len(s.plugins) : "transform" \notin s.plugins[i]
    THEN Throw(s, Err("Phenomic expects at least a transform plugin", 0))
    ELSE IF \A i \in 1..Len(s.plugins) : "collect" \notin s.plugins[i]
    THEN Throw(s, Err("Phenomic expects at least a collector plugin", 0))
    ELSE [Called(s, "getContentPath") EXCEPT !.pc = "getContentPath"]

\* AfterBuildForPrerendering, had the result of the call not been kept.
AfterBuildForPrerendering_withoutApp(s) == getContent(Called(s, "getContent"))

\* bundler.buildForPrerendering fulfilled: getContent is called.
AfterBuildForPrerendering(s) ==
    getContent(Called([s EXCEPT !.app = s.buildNo], "getContent"))

\* bundler.build fulfilled: the buildForPrerendering check and call.
AfterBuild(s) ==
    LET t == [s EXCEPT !.assets = s.buildNo]
    IN  IF ~Has(t.plugins, bundler(t.plugins), "buildForPrerendering")
        THEN Throw(t, Err("a bundler is required (buildForPrerendering)", 0))
        ELSE [Called(t, "buildForPrerendering") EXCEPT !.pc = "buildForPrerendering"]

\* Every beforeBuild hook fulfilled: the build check and call.
AfterBeforeBuild(s) ==
    IF ~Has(s.plugins, bundler(s.plugins), "build")
    THEN Throw(s, Err("a bundler is required (build)", 0))
    ELSE [Called(s, "build") EXCEPT !.pc = "build"]

\* AfterGetPort, had listen not been called on the server.
AfterGetPort_withoutListen(s) ==
    LET t == [s EXCEPT !.hook = [i \in 1..Len(s.plugins) |->
                                   IF "beforeBuild" \in s.plugins[i]
                                   THEN "pending" ELSE "none"],
                       !.pc = "beforeBuild"]
    IN  IF \A i \in 1..Len(s.plugins) : t.hook[i] = "none"
        THEN AfterBeforeBuild(t) ELSE t

\* getPort fulfilled: the server listens and the beforeBuild hooks are called.
AfterGetPort(s) ==
    LET t == [Called(s, "listen")
                EXCEPT !.server = "listening",
                       !.hook = [i \in 1..Len(s.plugins) |->
                                   IF "beforeBuild" \in s.plugins[i]
                                   THEN "pending" ELSE "none"],
                       !.pc = "beforeBuild"]
    IN  IF \A i \in 1..Len(s.plugins) : t.hook[i] = "none"
        THEN AfterBeforeBuild(t) ELSE t

\* rimraf.sync("dist")
rimraf(fs) == {e \in fs : e.dir # "dist"}

\* Begin, had the bundler been looked up and checked before the server is created.
Begin_checked(s) ==
    IF bundler(s.plugins) = 0
    THEN [Raise(Called(s, "rimraf"), Err("a bundler is required (build)", 0))
            EXCEPT !.disk = rimraf(@), !.pc = "rejected",
                   !.error = Err("a bundler is required (build)", 0)]
    ELSE [Called(s, "rimraf") EXCEPT !.disk = rimraf(@), !.pc = "getPort"]

\* build() up to its first await: rimraf, createServer and the getPort call.
Begin(s) == [Called(s, "rimraf") EXCEPT !.disk = rimraf(@), !.pc = "getPort"]

Is(s) ==
    /\ plugins = s.plugins
    /\ outdir = s.outdir
    /\ buildNo = s.buildNo
    /\ pc = s.pc
    /\ error = s.error
    /\ server = s.server
    /\ closeCalls = s.closeCalls
    /\ hook = s.hook
    /\ assets = s.assets
    /\ app = s.app
    /\ files = s.files
    /\ proc = s.proc
    /\ db = s.db
    /\ urls = s.urls
    /\ resolved = s.resolved
    /\ taken = s.taken
    /\ resolvingCount = s.resolvingCount
    /\ isRejected = s.isRejected
    /\ loc = s.loc
    /\ wr = s.wr
    /\ disk = s.disk
    /\ calls = s.calls
    /\ args = s.args
    /\ firstError = s.firstError
    /\ prev = s.prev

Init ==
    \E ps \in PluginLists, od \in OutDirs : Is(Fresh(ps, od, 1, {}, {}))

(* ------------------------------ actions -------------------------------- *)

\* build(config) is called.
Start ==
    /\ pc = "start"
    /\ Becomes(Begin(S))

GetPortFulfils ==
    /\ pc = "getPort"
    /\ Becomes(AfterGetPort(S))

\* getPort is awaited before the try block: nothing catches its rejection.
GetPortRejects ==
    /\ pc = "getPort"
    /\ Becomes([Raise(S, Err("getPort", 0))
                   EXCEPT !.pc = "rejected", !.error = Err("getPort", 0)])

\* BeforeBuildFulfils, had build() gone on at the first fulfilled hook.
BeforeBuildFulfils_first(i) ==
    /\ hook[i] = "pending"
    /\ LET t == [S EXCEPT !.hook[i] = "done"]
       IN  Becomes(IF pc = "beforeBuild" THEN AfterBeforeBuild(t) ELSE t)

\* Promise.all over the hooks fulfils when the last hook does.
BeforeBuildFulfils(i) ==
    /\ hook[i] = "pending"
    /\ LET t == [S EXCEPT !.hook[i] = "done"]
       IN  Becomes(IF /\ pc = "beforeBuild"
                      /\ \A j \in DOMAIN hook : t.hook[j] \in {"none", "done"}
                   THEN AfterBeforeBuild(t) ELSE t)

\* Promise.all over the hooks rejects with the first rejection.
BeforeBuildRejects(i) ==
    /\ hook[i] = "pending"
    /\ LET t == Raise([S EXCEPT !.hook[i] = "failed"], Err("beforeBuild", i))
       IN  Becomes(IF pc = "beforeBuild"
                   THEN Catch(t, Err("beforeBuild", i)) ELSE t)

BuildFulfils ==
    /\ pc = "build"
    /\ Becomes(AfterBuild(S))

BuildRejects ==
    /\ pc = "build"
    /\ Becomes(Throw(S, Err("build", 0)))

BuildForPrerenderingFulfils ==
    /\ pc = "buildForPrerendering"
    /\ Becomes(AfterBuildForPrerendering(S))

BuildForPrerenderingRejects ==
    /\ pc = "buildForPrerendering"
    /\ Becomes(Throw(S, Err("buildForPrerendering", 0)))

\* The content folder exists and holds n files.
GetContentPathFulfils ==
    /\ pc = "getContentPath"
    /\ \E n \in 0..MaxFiles : Becomes(AfterGetContentPath(S, n))

\* The content folder does not exist.
GetContentPathRejects ==
    /\ pc = "getContentPath"
    /\ Becomes(NoContentPath(S))

DestroyFulfils ==
    /\ pc = "destroy"
    /\ Becomes(AfterDestroy(S))

DestroyRejects ==
    /\ pc = "destroy"
    /\ Becomes(Throw(S, Err("destroy", 0)))

\* ProcessFileFulfils, had getContent gone on at the first fulfilled file.
ProcessFileFulfils_first(f) ==
    /\ proc[f] = "pending"
    /\ LET t == [S EXCEPT !.proc[f] = "done",
                          !.db = processFile(@, f, buildNo)]
       IN  Becomes(IF pc = "processFile" THEN AfterGetContent(t) ELSE t)

\* Promise.all over the files fulfils when the last processFile does.
ProcessFileFulfils(f) ==
    /\ proc[f] = "pending"
    /\ LET t == [S EXCEPT !.proc[f] = "done",
                          !.db = processFile(@, f, buildNo)]
       IN  Becomes(IF /\ pc = "processFile"
                      /\ \A g \in 1..files : t.proc[g] = "done"
                   THEN AfterGetContent(t) ELSE t)

\* Promise.all over the files rejects with the first rejection.
ProcessFileRejects(f) ==
    /\ proc[f] = "pending"
    /\ LET t == Raise([S EXCEPT !.proc[f] = "failed"], Err("processFile", f))
       IN  Becomes(IF pc = "processFile"
                   THEN Catch(t, Err("processFile", f)) ELSE t)

ResolveURLsFulfils ==
    /\ pc = "resolveURLs"
    /\ \E n \in 0..MaxUrls : Becomes(AfterResolveURLs(S, n))

ResolveURLsRejects ==
    /\ pc = "resolveURLs"
    /\ Becomes(Throw(S, Err("resolveURLs", 0)))

\* writeFile(path.join(config.outdir, decodeURIComponent(file.path)), file.contents)
writeFile(fs, dir, file) ==
    LET p == decodeURIComponent(file.path)
    IN  {e \in fs : ~(e.dir = dir /\ e.path = p)}
          \cup {[dir |-> dir, path |-> p, contents |-> file.contents]}

\* renderStatic fulfilled with the location's files: writeFile is called on
\* each; with no file to write the mapper's promise fulfils at once.
AfterRenderStatic(s, l) ==
    LET n == Len(RenderedFiles(l))
        t == [s EXCEPT !.wr[l] = [k \in 1..n |-> "pending"],
                       !.calls["writeFile"] = @ + n]
    IN  IF n = 0
        THEN PMapFulfilled([t EXCEPT !.loc[l] = "fulfilled"])
        ELSE [t EXCEPT !.loc[l] = "writing"]

RenderStaticFulfils(l) ==
    /\ loc[l] = "rendering"
    /\ Becomes(AfterRenderStatic(S, l))

RenderStaticRejects(l) ==
    /\ loc[l] = "rendering"
    /\ Becomes(PMapRejected(Raise([S EXCEPT !.loc[l] = "rejected"],
                                   Err("renderStatic", l)),
                            Err("renderStatic", l)))

\* A write completes; Promise.all over the location's writes fulfils with the last.
WriteFileFulfils(l, k) ==
    /\ wr[l][k] = "pending"
    /\ LET t == [S EXCEPT !.wr[l][k] = "done",
                          !.disk = writeFile(@, outdir, RenderedFiles(l)[k])]
       IN  Becomes(IF /\ loc[l] = "writing"
                      /\ \A j \in DOMAIN t.wr[l] : t.wr[l][j] = "done"
                   THEN PMapFulfilled([t EXCEPT !.loc[l] = "fulfilled"])
                   ELSE t)

\* A write fails; Promise.all over the location's writes rejects with the first.
WriteFileRejects(l, k) ==
    /\ wr[l][k] = "pending"
    /\ LET t == Raise([S EXCEPT !.wr[l][k] = "failed"], Err("writeFile", l))
       IN  Becomes(IF loc[l] = "writing"
                   THEN PMapRejected([t EXCEPT !.loc[l] = "rejected"],
                                     Err("writeFile", l))
                   ELSE t)

\* The server's close completes (its 'close' event).
ServerCloses ==
    /\ server = "closing"
    /\ server' = "closed"
    /\ UNCHANGED <<plugins, outdir, buildNo, pc, error, closeCalls, hook,
                   assets, app, files, proc, db, urls, resolved, taken,
                   resolvingCount, isRejected, loc, wr, disk, calls, args,
                   firstError, prev>>

\* Nothing of the build is in flight any more.
Quiescent ==
    /\ pc \in {"done", "rejected"}
    /\ server # "closing"
    /\ \A i \in DOMAIN hook : hook[i] # "pending"
    /\ \A f \in DOMAIN proc : proc[f] # "pending"
    /\ \A l \in DOMAIN loc : loc[l] # "rendering"
    /\ \A l \in DOMAIN wr : \A k \in DOMAIN wr[l] : wr[l][k] # "pending"

\* How this build ended, for the next one to compare with.
Outcome ==
    IF pc = "done"
    THEN [done |-> TRUE, urls |-> Len(urls),
          out |-> {[path |-> e.path, contents |-> e.contents] :
                      e \in {x \in disk : x.dir = outdir}}]
    ELSE NoPrev

\* build(config) is called again in the same process, on the same store and disk.
NewBuild ==
    /\ Quiescent
    /\ buildNo < MaxBuilds
    /\ Becomes(Begin(Fresh(plugins, outdir, buildNo + 1, db, disk)))

\* NewBuild, with the way the build before it ended kept for comparison.
NewBuildObserved ==
    /\ Quiescent
    /\ buildNo < MaxBuilds
    /\ Becomes([Begin(Fresh(plugins, outdir, buildNo + 1, db, disk))
                   EXCEPT !.prev = Outcome])

Next ==
    \/ Start
    \/ GetPortFulfils
    \/ GetPortRejects
    \/ \E i \in DOMAIN hook : BeforeBuildFulfils(i)
    \/ \E i \in DOMAIN hook : BeforeBuildRejects(i)
    \/ BuildFulfils
    \/ BuildRejects
    \/ BuildForPrerenderingFulfils
    \/ BuildForPrerenderingRejects
    \/ GetContentPathFulfils
    \/ GetContentPathRejects
    \/ DestroyFulfils
    \/ DestroyRejects
    \/ \E f \in DOMAIN proc : ProcessFileFulfils(f)
    \/ \E f \in DOMAIN proc : ProcessFileRejects(f)
    \/ ResolveURLsFulfils
    \/ ResolveURLsRejects
    \/ \E l \in DOMAIN loc : RenderStaticFulfils(l)
    \/ \E l \in DOMAIN loc : RenderStaticRejects(l)
    \/ \E l \in DOMAIN wr : \E k \in DOMAIN wr[l] : WriteFileFulfils(l, k)
    \/ \E l \in DOMAIN wr : \E k \in DOMAIN wr[l] : WriteFileRejects(l, k)
    \/ ServerCloses
    \/ NewBuild

Spec == Init /\ [][Next]_vars

\* The runs in which every plugin call, store operation and write succeeds and
\* the event loop keeps delivering completions.
NextOk ==
    \/ Start
    \/ GetPortFulfils
    \/ \E i \in DOMAIN hook : BeforeBuildFulfils(i)
    \/ BuildFulfils
    \/ BuildForPrerenderingFulfils
    \/ GetContentPathFulfils
    \/ GetContentPathRejects
    \/ DestroyFulfils
    \/ \E f \in DOMAIN proc : ProcessFileFulfils(f)
    \/ ResolveURLsFulfils
    \/ \E l \in DOMAIN loc : RenderStaticFulfils(l)
    \/ \E l \in DOMAIN wr : \E k \in DOMAIN wr[l] : WriteFileFulfils(l, k)
    \/ ServerCloses
    \/ NewBuild

SpecLive == Init /\ [][NextOk]_vars /\ WF_vars(NextOk)

\* Builds of one config with every capability in one plugin and the output
\* directory rimraf cleans, run one after the other, each build knowing how the
\* one before it ended.
InitTwice == Is(Fresh(<<Caps>>, "dist", 1, {}, {}))

NextTwice ==
    \/ Start
    \/ GetPortFulfils
    \/ GetPortRejects
    \/ \E i \in DOMAIN hook : BeforeBuildFulfils(i)
    \/ \E i \in DOMAIN hook : BeforeBuildRejects(i)
    \/ BuildFulfils
    \/ BuildRejects
    \/ BuildForPrerenderingFulfils
    \/ BuildForPrerenderingRejects
    \/ GetContentPathFulfils
    \/ GetContentPathRejects
    \/ DestroyFulfils
    \/ DestroyRejects
    \/ \E f \in DOMAIN proc : ProcessFileFulfils(f)
    \/ \E f \in DOMAIN proc : ProcessFileRejects(f)
    \/ ResolveURLsFulfils
    \/ ResolveURLsRejects
    \/ \E l \in DOMAIN loc : RenderStaticFulfils(l)
    \/ \E l \in DOMAIN loc : RenderStaticRejects(l)
    \/ \E l \in DOMAIN wr : \E k \in DOMAIN wr[l] : WriteFileFulfils(l, k)
    \/ \E l \in DOMAIN wr : \E k \in DOMAIN wr[l] : WriteFileRejects(l, k)
    \/ ServerCloses
    \/ NewBuildObserved

SpecTwice == InitTwice /\ [][NextTwice]_vars

(* ------------------------------- claims -------------------------------- *)

Missing(cap) == \A i \in DOMAIN plugins : cap \notin plugins[i]

Terminated == pc \in {"done", "rejected"}

\* The server was started by this build.
ServerStarted == calls["listen"] > 0

\* Locations with a render or a write of theirs still pending.
Active == {l \in DOMAIN loc :
             \/ loc[l] \in {"rendering", "writing"}
             \/ \E k \in DOMAIN wr[l] : wr[l][k] = "pending"}

\* C1: a build that has rejected leaves no server listening, and if it had
\* started the server it has called close on it.
C1_ClosedBeforeRejection ==
    pc = "rejected" =>
       /\ server # "listening"
       /\ ServerStarted => closeCalls >= 1

\* A write failed in the prerender phase, with the server started.
C1_Witness ==
    /\ pc = "rejected"
    /\ error.kind = "writeFile"
    /\ ServerStarted
    /\ server \in {"closing", "closed"}

\* C2: close is never called twice, and a terminated build that started the
\* server has called it exactly once.
C2_ClosedExactlyOnce ==
    /\ closeCalls <= 1
    /\ (Terminated /\ ServerStarted) => closeCalls = 1

\* One renderStatic call rejected while another location was in flight, which
\* then failed as well.
C2_Witness ==
    /\ pc = "rejected"
    /\ error.kind = "renderStatic"
    /\ Cardinality({l \in DOMAIN loc : loc[l] = "rejected"}) >= 2
    /\ closeCalls = 1

\* C3: build is done only once the server's close has completed.
C3_DoneOnlyAfterClosed == pc = "done" => server = "closed"

\* C4: at most Concurrency locations have a render or write pending; a location
\* fulfils (and frees its slot) only with all its writes done; and until pMap
\* rejects, its count of occupied slots is the number of unsettled locations.
C4_ConcurrencyCap ==
    /\ Cardinality(Active) <= Concurrency
    /\ \A l \in DOMAIN loc :
          loc[l] = "fulfilled" => \A k \in DOMAIN wr[l] : wr[l][k] = "done"
    /\ ~isRejected =>
          resolvingCount =
             Cardinality({l \in DOMAIN loc : loc[l] \in {"rendering", "writing"}})

\* A list longer than the cap: every slot is taken, a slot has already been
\* freed and refilled, and a location is still waiting.
C4_Witness ==
    /\ Len(urls) > Concurrency
    /\ Cardinality(Active) = Concurrency
    /\ taken > Concurrency
    /\ \E l \in DOMAIN loc : loc[l] = "fulfilled"

\* C5: buildForPrerendering is called only after build has fulfilled; getRoutes
\* and resolveURLs only after both bundles exist and every listed file has
\* been processed; renderStatic only after resolveURLs has fulfilled.
C5_PhaseOrder ==
    /\ calls["buildForPrerendering"] > 0 => assets = buildNo
    /\ (calls["getRoutes"] > 0 \/ calls["resolveURLs"] > 0) =>
          /\ assets = buildNo
          /\ app = buildNo
          /\ \A f \in DOMAIN proc : proc[f] = (IF f <= files THEN "done" ELSE "idle")
    /\ calls["renderStatic"] > 0 => resolved
    /\ \A l \in DOMAIN loc : loc[l] # "idle" => resolved

\* Every phase ran, with the most files ingested.
C5_Witness ==
    /\ calls["renderStatic"] > 0
    /\ files = MaxFiles
    /\ \A f \in DOMAIN proc : proc[f] = "done"

RoleErrors ==
    {"a bundler is required (build)",
     "a bundler is required (buildForPrerendering)",
     "a renderer is required (getRoutes)",
     "a renderer is required (renderStatic)",
     "an urls-resolver is required (resolveURLs)",
     "Phenomic expects at least a transform plugin",
     "Phenomic expects at least a collector plugin"}

\* Failures of the operations that run before the prerender phase.
EarlierFailures ==
    {"getPort", "beforeBuild", "build", "buildForPrerendering", "destroy",
     "processFile", "resolveURLs"}

\* C6: with no plugin supplying one of build, buildForPrerendering, getRoutes,
\* renderStatic, resolveURLs, the build never succeeds, rejects with a named
\* error (unless an earlier operation failed), and calls neither renderStatic
\* nor writeFile.
C6_MissingRoleFails ==
    (\E cap \in {"build", "buildForPrerendering", "getRoutes", "renderStatic",
                 "resolveURLs"} : Missing(cap)) =>
       /\ pc # "done"
       /\ pc = "rejected" => error.kind \in RoleErrors \cup EarlierFailures
       /\ calls["renderStatic"] = 0
       /\ calls["writeFile"] = 0

NoIngestionWork ==
    /\ calls["getContentPath"] = 0
    /\ calls["oneShot"] = 0
    /\ calls["destroy"] = 0
    /\ \A f \in DOMAIN proc : proc[f] = "idle"
    /\ calls["writeFile"] = 0

\* C7: once getContent is called on a plugin list without transform, the build
\* has rejected with the transform error; with transform but without collect,
\* with the collector error; in both cases the content path was not resolved,
\* no file listed or processed, the store not destroyed and nothing written.
C7_IngestionChecksFirst ==
    calls["getContent"] > 0 =>
       /\ Missing("transform") =>
             /\ pc = "rejected"
             /\ error.kind = "Phenomic expects at least a transform plugin"
             /\ NoIngestionWork
       /\ (~Missing("transform") /\ Missing("collect")) =>
             /\ pc = "rejected"
             /\ error.kind = "Phenomic expects at least a collector plugin"
             /\ NoIngestionWork

\* A second build reached getContent without a collector, on a disk and store
\* the first build left.
C7_Witness ==
    /\ calls["getContent"] > 0
    /\ Missing("collect")
    /\ ~Missing("transform")
    /\ error.kind = "Phenomic expects at least a collector plugin"
    /\ buildNo = 2

\* C8 as stated: once a location has failed the build never succeeds, and from
\* then on every file on disk stays as it is.
C8_FilesUnchangedAfterFailure ==
    /\ []((\E l \in DOMAIN loc : loc[l] = "rejected") => pc = "rejected")
    /\ [][(pc = "rejected" /\ buildNo' = buildNo) => disk \subseteq disk']_vars

SamePaths(fs) == {<<e.dir, e.path>> : e \in fs}

\* C8 amended: once a location has failed the build never succeeds; the failing
\* step changes no file; and from then on no file is removed from the disk
\* (a write still in flight may overwrite one).
C8_NoRollback ==
    /\ []((\E l \in DOMAIN loc : loc[l] = "rejected") => pc = "rejected")
    /\ [][(pc # "rejected" /\ pc' = "rejected") => disk' = disk]_vars
    /\ [][(pc = "rejected" /\ buildNo' = buildNo) =>
             SamePaths(disk) \subseteq SamePaths(disk')]_vars

\* A render or write failed with files already on disk.
C8_Witness ==
    /\ pc = "rejected"
    /\ error.kind \in {"renderStatic", "writeFile"}
    /\ \E e \in disk : e.dir = outdir

\* C9: when every call succeeds, a fan-out over a list longer than the cap ends
\* with every location rendered, its files written, and the build done.
C9_FanOutCompletes ==
    (pc = "pMap" /\ Len(urls) > Concurrency) ~>
       /\ pc = "done"
       /\ \A l \in 1..Len(urls) :
             /\ loc[l] = "fulfilled"
             /\ \A k \in DOMAIN wr[l] : wr[l][k] = "done"

\* The successful end of a build over a list longer than the cap.
C9_Witness ==
    /\ pc = "done"
    /\ Len(urls) > Concurrency
    /\ \A l \in 1..Len(urls) : loc[l] = "fulfilled"

\* getContent has returned normally.
IngestionOver ==
    /\ calls["getContent"] > 0
    /\ pc \notin {"getContentPath", "destroy", "processFile"}
    /\ error.kind \notin
          {"Phenomic expects at least a transform plugin",
           "Phenomic expects at least a collector plugin",
           "destroy", "processFile"}

\* C10: after ingestion the store holds only records of this build, and none
\* when the content folder does not exist.
C10_NoStaleRecords ==
    IngestionOver =>
       /\ \A r \in db : r.build = buildNo
       /\ calls["warnNoContent"] > 0 => db = {}

\* The files of config.outdir, as {path, contents}.
Out ==
    {[path |-> e.path, contents |-> e.contents] : e \in {x \in disk : x.dir = outdir}}

\* The files the renderStatic calls of a list of n locations return, at their
\* decoded paths.
Rendered(n) ==
    UNION {{[path |-> decodeURIComponent(RenderedFiles(l)[k].path),
             contents |-> RenderedFiles(l)[k].contents] :
               k \in DOMAIN RenderedFiles(l)} : l \in 1..n}

PathsOf(fs) == {e.path : e \in fs}

\* C11: after a successful build the output directory holds exactly the files
\* this build's renderStatic calls returned.
C11_OutdirHoldsThisBuildOnly ==
    pc = "done" =>
       /\ PathsOf(Out) = PathsOf(Rendered(Len(urls)))
       /\ Out \subseteq Rendered(Len(urls))

\* Decoded paths that rendered files with different contents resolve to.
Contested(n) ==
    {a.path : a \in {x \in Rendered(n) :
                        \E y \in Rendered(n) :
                           y.path = x.path /\ y.contents # x.contents}}

\* A successful build after a successful build of the same config that
\* resolved the same URL list.
Repeat == pc = "done" /\ prev.done /\ prev.urls = Len(urls)

\* C12 as stated: the second of two such builds leaves the output directory the
\* first one left.
C12_SameOutputTwice == Repeat => Out = prev.out

\* C12 amended: the two output directories hold the same paths, and the same
\* contents at every path that does not receive different contents from
\* different rendered files.
C12_SameOutputWhereUncontested ==
    Repeat =>
       /\ PathsOf(Out) = PathsOf(prev.out)
       /\ \A e \in Out : e.path \notin Contested(Len(urls)) => e \in prev.out

\* Two such builds whose outputs agree on an uncontested file and differ on a
\* contested one.
C12_Witness ==
    /\ Repeat
    /\ \E e \in Out : e.path \notin Contested(Len(urls))
    /\ Out # prev.out

\* C13: once resolveURLs has resolved to the empty list the build is done, has
\* warned, has called neither renderStatic nor writeFile, and has closed the server.
C13_EmptyListSucceeds ==
    (resolved /\ Len(urls) = 0) =>
       /\ pc = "done"
       /\ calls["warnNoURLs"] = 1
       /\ calls["renderStatic"] = 0
       /\ calls["writeFile"] = 0
       /\ closeCalls = 1
       /\ server \in {"closing", "closed"}

\* A build over the empty list, done, its server closed.
C13_Witness ==
    /\ resolved
    /\ Len(urls) = 0
    /\ pc = "done"
    /\ server = "closed"

Singletons ==
    {"build", "buildForPrerendering", "getRoutes", "renderStatic", "resolveURLs"}

\* The plugin whose callable build() invokes for a capability.
Callee(cap) ==
    CASE cap \in {"build", "buildForPrerendering"} -> bundler(plugins)
      [] cap \in {"getRoutes", "renderStatic"} -> renderer(plugins)
      [] OTHER -> urlsResolver(plugins)

RequiredError(cap) ==
    CASE cap = "build" -> "a bundler is required (build)"
      [] cap = "buildForPrerendering" -> "a bundler is required (buildForPrerendering)"
      [] cap = "getRoutes" -> "a renderer is required (getRoutes)"
      [] cap = "renderStatic" -> "a renderer is required (renderStatic)"
      [] OTHER -> "an urls-resolver is required (resolveURLs)"

\* C14: the plugin invoked for a capability is the first one implementing it,
\* and a list in which some plugin implements the capability never fails with
\* that capability's 'is required' error.
C14_FirstImplementerServes ==
    \A cap \in Singletons :
       /\ calls[cap] > 0 => Callee(cap) = FirstWith(plugins, cap)
       /\ ~Missing(cap) => error.kind # RequiredError(cap)

\* C15: resolveURLs and renderStatic are called, and pending while the build
\* runs, only with the server listening, and never before listen was called.
C15_ListeningBeforeFetch ==
    /\ [](pc = "resolveURLs" => server = "listening")
    /\ []((pc = "pMap" /\ \E l \in DOMAIN loc : loc[l] = "rendering")
             => server = "listening")
    /\ []((\E l \in DOMAIN loc : loc[l] = "rendering") => ServerStarted)
    /\ [][(\/ calls'["resolveURLs"] > calls["resolveURLs"]
           \/ calls'["renderStatic"] > calls["renderStatic"])
             => (server = "listening" /\ server' = "listening")]_vars

\* A renderStatic call started after a slot was freed, the server listening.
C15_Witness ==
    /\ taken > Concurrency
    /\ loc[taken] = "rendering"
    /\ server = "listening"

\* C16: a build rejects exactly when a stage has raised an error, and with the
\* first error raised, as raised.
C16_FirstErrorUnchanged ==
    /\ firstError # NoError => (pc = "rejected" /\ error = firstError)
    /\ pc = "rejected" => (error # NoError /\ error = firstError)
    /\ pc = "done" => error = NoError

\* A write failed first and another location failed after it.
C16_Witness ==
    /\ pc = "rejected"
    /\ error.kind = "writeFile"
    /\ \E l \in DOMAIN loc : loc[l] = "rejected" /\ l # error.id

\* C17: once the server listens the hooks called are those of the plugins that
\* define beforeBuild; build is called only with every hook fulfilled; and a
\* rejected hook means a rejected build that never called build.
C17_HooksBeforeBuild ==
    /\ \A i \in DOMAIN hook :
          hook[i] # "none" <=> (ServerStarted /\ "beforeBuild" \in plugins[i])
    /\ calls["build"] > 0 => \A i \in DOMAIN hook : hook[i] \in {"none", "done"}
    /\ (\E i \in DOMAIN hook : hook[i] = "failed") =>
          (pc = "rejected" /\ calls["build"] = 0)

\* Two hooks started together: one rejected, the other is still pending.
C17_Witness ==
    /\ pc = "rejected"
    /\ \E i, j \in DOMAIN hook : hook[i] = "failed" /\ hook[j] = "pending"

C19_StoreChangesOnlyWhileIngesting ==
    [][db' # db => pc \in {"destroy", "processFile"}]_vars

\* C19 amended: the store changes only in those steps, or, after a processFile
\* call has rejected and failed the build, in the steps of the processFile
\* calls still in flight.
C19_StoreChangesOnlyByIngestion ==
    [][db' # db =>
         \/ pc \in {"destroy", "processFile"}
         \/ (pc = "rejected" /\ error.kind = "processFile")]_vars

\* Ingestion has failed on one file with another file still being processed.
C19_Witness ==
    /\ pc = "rejected"
    /\ error.kind = "processFile"
    /\ \E f \in DOMAIN proc : proc[f] = "pending"

\* C20: a build that is done has called build, buildForPrerendering, getRoutes
\* and resolveURLs once each, processFile once per listed file, and renderStatic
\* once per location of the list, with this build's app and assets.
C20_EachStepOnce ==
    pc = "done" =>
       /\ \A c \in {"build", "buildForPrerendering", "getRoutes", "resolveURLs"} :
             calls[c] = 1
       /\ calls["processFile"] = files
       /\ \A f \in DOMAIN proc : proc[f] = (IF f <= files THEN "done" ELSE "idle")
       /\ calls["renderStatic"] = Len(urls)
       /\ \A l \in DOMAIN loc :
             IF l <= Len(urls)
             THEN loc[l] = "fulfilled" /\ args[l] = <<buildNo, buildNo>>
             ELSE loc[l] = "idle"

\* A second build done over the longest list and the most files.
C20_Witness ==
    /\ pc = "done"
    /\ buildNo = 2
    /\ Len(urls) = MaxUrls
    /\ files = MaxFiles
=============================================================================
